---- MODULE Spec2Model ----
(***************************************************************************)
(* Model of the mongoimport CSV/TSV input readers (src/mongoimport/csv.go, *)
(* which holds both the CSV and the TSV reader) and of the decode engine   *)
(* streamDocuments they hand their record channel to.                      *)
(*                                                                         *)
(* One behaviour is one reader instance: construction, one call of         *)
(* ReadAndValidateHeader, one call of StreamDocument.  The producer        *)
(* goroutine, the decoding workers, the ordered-mode releaser, the         *)
(* goroutine that runs StreamDocument and the consumer of the two caller   *)
(* channels interleave freely.                                             *)
(***************************************************************************)
EXTENDS Integers, Sequences, FiniteSets, Bags, TLC

\* ------------------------------------------------------------------ bounds
MaxRecords  == 3      \* data lines after the header
MaxDecoders == 2      \* largest numDecoders tried
BufSize     == 4      \* size of the buffered reader's buffer (bufio's 4096, scaled)

\* --------------------------------------------------------------- utilities
Min(a, b) == IF a < b THEN a ELSE b

Range(s) == { s[i] : i \in 1..Len(s) }

RECURSIVE SeqsUpTo(_, _)
SeqsUpTo(S, n) ==
    IF n = 0 THEN { <<>> }
    ELSE LET shorter == SeqsUpTo(S, n - 1)
         IN  shorter \cup { Append(s, x) : s \in { t \in shorter : Len(t) = n - 1 }, x \in S }

\* ------------------------------------------------------------- input bytes
\* A framing unit is the sequence of its tokens.  Every token but "field1"
\* is one byte long; each token is followed by one separator or terminator.
TokLen(tok) == IF tok = "field1" THEN 6 ELSE 1

RECURSIVE UnitSize(_)
UnitSize(u) == IF u = <<>> THEN 0 ELSE TokLen(Head(u)) + 1 + UnitSize(Tail(u))

HeaderSet == { <<"field1">>, <<"a", "a">> }
RecordSet == { <<"1">>, <<"2">>, <<"1", "2">> }
EndingSet == { "eof", "eofNoNewline", "error" }
InitFieldsSet == { <<>>, <<"c">> }

VARIABLES
    kind,               \* "csv" or "tsv": which reader this is
    ordered,            \* StreamDocument's ordered argument
    numDecoders,        \* the reader's numDecoders
    input,              \* [units, ending]: the bytes of the source, framed
    fields,             \* reader.fields
    numProcessed,       \* reader.numProcessed
    unitPos,            \* framing units the reader has consumed
    srcPos,             \* bytes pulled from the underlying io.Reader
    bytesRead,          \* the sizeTrackingReader's count (Size())
    curRecord,          \* reader.csvRecord / reader.tsvRecord
    recordChan,         \* csvRecordChan / tsvRecordChan: buffered records
    chanClosed,         \* whether the record channel is closed
    pcMain,             \* the goroutine calling the reader's methods
    pcProd,             \* the producer goroutine of StreamDocument
    workers,            \* per decoding worker: [pc, doc]
    terminalError,      \* first conversion error latched by the engine
    buffer,             \* ordered mode: completed results awaiting release
    nextExpectedIndex,  \* ordered mode: next index to release
    outputClosed,       \* whether the engine closed the output channel
    retErr,             \* value StreamDocument is sending on errChan
    headerErr,          \* ReadAndValidateHeader's return value
    output,             \* documents the consumer received, in order
    errRecv,            \* values the consumer received on errChan, in order
    consumer,           \* [docs, errs]: how many receives the consumer makes
    hist                \* history: indices enqueued and dequeued, closes of
                        \* the record channel, read errors sent, whether a
                        \* result ever waited in the reassembly buffer

vars == << kind, ordered, numDecoders, input, fields, numProcessed, unitPos,
           srcPos, bytesRead, curRecord, recordChan, chanClosed, pcMain,
           pcProd, workers, terminalError, buffer, nextExpectedIndex,
           outputClosed, retErr, headerErr, output, errRecv, consumer, hist >>

config   == << kind, ordered, numDecoders, input, consumer >>
readerSt == << unitPos, srcPos, bytesRead >>
engineSt == << workers, terminalError, buffer, nextExpectedIndex, outputClosed >>

\* ------------------------------------------------------------ error values
Nil == [type |-> "nil"]
EOFErr == [type |-> "EOF"]
IOErr == [type |-> "io"]
ReadError(n) == [type |-> "read", entry |-> n]
ConversionError(i) == [type |-> "convert", index |-> i]
HeaderInvalid == [type |-> "header"]

\* ---------------------------------------------------------------- framing
NumUnits == Len(input.units)

\* Whether unit k is the final line and lacks its line terminator.
Unterminated(k) == k = NumUnits /\ input.ending = "eofNoNewline"

RECURSIVE UnitEnd(_)
\* Byte offset just past unit k.
UnitEnd(k) ==
    IF k = 0 THEN 0
    ELSE UnitEnd(k - 1) + UnitSize(input.units[k])
         - (IF Unterminated(k) THEN 1 ELSE 0)

TotalBytes == UnitEnd(NumUnits)

RECURSIVE Fill(_, _)
\* The csv package reads one rune at a time and refills its buffer only when
\* the buffer is empty: it pulls whole BufSize-byte chunks from the source
\* until `need` bytes are in, or the source is exhausted.
Fill(pos, need) ==
    IF pos >= need \/ pos >= TotalBytes THEN pos
    ELSE Fill(Min(pos + BufSize, TotalBytes), need)

RECURSIVE ReadSliceFill(_, _, _)
\* bufio.Reader.ReadString: ReadSlice searches the unread bytes [held, pos)
\* for the delimiter, whose last byte is at offset need - 1.  When it is not
\* there and the buffer is full, the whole buffer is handed over as a
\* fragment; otherwise fill() slides the unread bytes to the front and makes
\* one read into the free part, BufSize - (pos - held) bytes.  An exhausted
\* source ends the search.
ReadSliceFill(pos, held, need) ==
    IF pos >= need THEN pos
    ELSE IF pos - held >= BufSize THEN ReadSliceFill(pos, pos, need)
    ELSE IF pos >= TotalBytes THEN pos
    ELSE ReadSliceFill(Min(held + BufSize, TotalBytes), held, need)


\* TSV keeps the raw line: its tokens followed by the line terminator.
TSVLine(u, terminated) == IF terminated THEN Append(u, "\n") ELSE u

\* strings.Split(strings.TrimRight(line, "\r\n"), tokenSeparator)
TrimRightSplit(line) ==
    IF line # <<>> /\ line[Len(line)] = "\n"
    THEN SubSeq(line, 1, Len(line) - 1)
    ELSE line

\* csv.Reader.Read at the reader's position: a record, io.EOF or an error.
\* A final record without a line terminator is still a record.
csvReaderRead ==
    IF unitPos < NumUnits
    THEN [err |-> Nil, data |-> input.units[unitPos + 1], pos |-> unitPos + 1,
          src |-> Fill(srcPos, UnitEnd(unitPos + 1))]
    ELSE [err |-> IF input.ending = "error" THEN IOErr ELSE EOFErr,
          data |-> <<>>, pos |-> unitPos, src |-> Fill(srcPos, TotalBytes + 1)]

\* bufio.Reader.ReadString(entryDelimiter): the line up to and including the
\* delimiter; when the source ends before a delimiter, the partial line
\* together with the error (io.EOF included).
tsvReadString ==
    IF unitPos < NumUnits /\ ~Unterminated(unitPos + 1)
    THEN [err |-> Nil, data |-> TSVLine(input.units[unitPos + 1], TRUE),
          pos |-> unitPos + 1,
          src |-> ReadSliceFill(srcPos, UnitEnd(unitPos), UnitEnd(unitPos + 1))]
    ELSE [err |-> IF input.ending = "error" THEN IOErr ELSE EOFErr,
          data |-> IF unitPos < NumUnits
                   THEN TSVLine(input.units[unitPos + 1], FALSE) ELSE <<>>,
          pos |-> NumUnits,
          src |-> ReadSliceFill(srcPos, UnitEnd(unitPos), TotalBytes + 1)]

\* Whether the reader's buffered reader is built over the size-tracking
\* reader: csv.NewReader(szCount) against bufio.NewReader(in).
ReadsThroughSizeTracker == kind = "csv"

\* The reader's next framing unit, with the reader state it leaves behind.
ReadFrame == IF kind = "csv" THEN csvReaderRead ELSE tsvReadString

\* sizeTrackingReader: counts the bytes read through it.
SizeAfter(r) == IF ReadsThroughSizeTracker THEN r.src ELSE bytesRead

\* ----------------------------------------------------------- field checks
validateReaderFields(f) ==
    IF /\ f # <<>>
       /\ \A i, j \in 1..Len(f) : i # j => f[i] # f[j]
       /\ \A i \in 1..Len(f) : f[i] # ""
    THEN Nil ELSE HeaderInvalid

\* -------------------------------------------------------------- conversion
AutoKey(i) ==
    CASE i = 0 -> "field0" [] i = 1 -> "field1" [] i = 2 -> "field2"
      [] OTHER -> "fieldN"

\* tokensToBSON: token i takes the name of field i; a token beyond the field
\* list takes the generated name field<i>, which must not be a header name.
tokensToBSON(flds, tokens, index) ==
    IF \E i \in (Len(flds) + 1)..Len(tokens) : AutoKey(i - 1) \in Range(flds)
    THEN [err |-> ConversionError(index), doc |-> <<>>]
    ELSE [err |-> Nil,
          doc |-> [i \in 1..Len(tokens) |->
                     << IF i <= Len(flds) THEN flds[i] ELSE AutoKey(i - 1),
                        tokens[i] >>]]

CSVConvert(d) == tokensToBSON(d.fields, d.data, d.index)

TSVConvert(d) == tokensToBSON(d.fields, TrimRightSplit(d.data), d.index)

Convert(d) == IF d.kind = "csv" THEN CSVConvert(d) ELSE TSVConvert(d)

\* ---------------------------------------------------------------- initial
NoRecord == [kind |-> "none"]

Workers == 1..numDecoders

Inputs ==
    { [units |-> <<h>> \o recs, ending |-> e] :
        h \in HeaderSet, recs \in SeqsUpTo(RecordSet, MaxRecords), e \in EndingSet }
    \cup { [units |-> <<>>, ending |-> e] : e \in { "eof", "error" } }

\* A freshly constructed reader over an input, nothing started.
Constructed ==
    /\ kind \in { "csv", "tsv" }
    /\ ordered \in BOOLEAN
    /\ numDecoders \in 1..MaxDecoders
    /\ input \in Inputs
    /\ fields \in InitFieldsSet
    /\ numProcessed = 0
    /\ unitPos = 0
    /\ srcPos = 0
    /\ bytesRead = 0
    /\ curRecord = <<>>
    /\ recordChan = <<>>
    /\ chanClosed = FALSE
    /\ pcMain = "new"
    /\ pcProd = "idle"
    /\ workers = [w \in 1..numDecoders |-> [pc |-> "idle", rec |-> NoRecord]]
    /\ terminalError = Nil
    /\ buffer = {}
    /\ nextExpectedIndex = 0
    /\ outputClosed = FALSE
    /\ retErr = Nil
    /\ headerErr = Nil
    /\ output = <<>>
    /\ errRecv = <<>>
    /\ hist = [enq |-> <<>>, deq |-> <<>>, closes |-> 0, readErrs |-> <<>>,
               heldBack |-> FALSE]

\* The consumer receives every document and every value sent on errChan.
Init ==
    /\ Constructed
    /\ consumer = [docs |-> MaxRecords, errs |-> 2]

\* The consumer receives every document but only one value from errChan.
InitErrOnce ==
    /\ Constructed
    /\ consumer = [docs |-> MaxRecords, errs |-> 1]

\* The consumer stops receiving documents at once or after the first one.
InitAbandon ==
    /\ Constructed
    /\ consumer \in { [docs |-> d, errs |-> 2] : d \in { 0, 1 } }


\* ------------------------------------------------- ReadAndValidateHeader
\* CSV: the header record replaces the reader's fields.
CSVHeaderFields(r) == r.data

\* TSV: every name split from the header line is appended to the reader's
\* fields.
TSVHeaderFields(r) == fields \o TrimRightSplit(r.data)

\* Mutant: the error of the header read is dropped.
HeaderReturnIgnoresRead(r, f) == validateReaderFields(f)

\* The call's return value: the read error if the read failed, else the
\* verdict of validateReaderFields on the fields just set.
HeaderReturn(r, f) == IF r.err # Nil THEN r.err ELSE validateReaderFields(f)

ReadAndValidateHeader ==
    /\ pcMain = "new"
    /\ LET r == ReadFrame
           f == IF kind = "csv" THEN CSVHeaderFields(r) ELSE TSVHeaderFields(r)
       IN  /\ unitPos' = r.pos
           /\ srcPos' = r.src
           /\ bytesRead' = SizeAfter(r)
           /\ fields' = IF r.err # Nil THEN fields ELSE f
           /\ headerErr' = HeaderReturn(r, f)
           /\ pcMain' = IF HeaderReturn(r, f) = Nil THEN "ready" ELSE "headerFailed"
    /\ UNCHANGED << config, numProcessed, curRecord, recordChan, chanClosed,
                    pcProd, engineSt, retErr, output, errRecv, hist >>

\* ---------------------------------------------------------- StreamDocument
\* Mutant: the channel is made one slot larger than numDecoders.
RecordChanCapPlusOne == numDecoders + 1

\* Capacity of the record channel: make(chan ConvertibleDoc, numDecoders).
RecordChanCap == numDecoders

\* The call: the record channel exists, the producer goroutine is started
\* and streamDocuments starts its workers.
StreamDocument ==
    /\ pcMain = "ready"
    /\ pcMain' = "streaming"
    /\ pcProd' = "read"
    /\ workers' = [w \in Workers |-> [pc |-> "ready", rec |-> NoRecord]]
    /\ UNCHANGED << config, fields, numProcessed, readerSt, curRecord,
                    recordChan, chanClosed, terminalError, buffer,
                    nextExpectedIndex, outputClosed, retErr, headerErr,
                    output, errRecv, hist >>

\* The consumer of errChan is at a receive.
ErrChanReady == Len(errRecv) < consumer.errs

\* The consumer of the output channel takes n more documents.
OutputReady(n) == Len(output) + n <= consumer.docs

\* Mutant: the record is stamped with the index of the one before it.
RecordIndexStale == IF numProcessed > 0 THEN numProcessed - 1 ELSE numProcessed

\* The index the producer stamps on the record it enqueues.
RecordIndex == numProcessed

\* The data of the record it enqueues: the unit just read.
RecordData == curRecord

\* Mutant: every read failure is taken for end-of-input.
IsEndOfInputAlways(err) == TRUE

\* Mutant: end-of-input is reported like any other read failure.
IsEndOfInputNever(err) == FALSE

\* if err != io.EOF: everything but end-of-input is a read error.
IsEndOfInput(err) == err = EOFErr

\* Mutant: the entry number is reported without the increment (0-based).
ReadErrorEntryZeroBased == numProcessed - 1

\* The entry number the producer reports in a read error (numProcessed was
\* incremented just before).
ReadErrorEntry == numProcessed

\* Producer, top of the loop: read one framing unit and branch on the error.
ProducerRead ==
    /\ pcProd = "read"
    /\ LET r == ReadFrame
       IN  /\ unitPos' = r.pos
           /\ srcPos' = r.src
           /\ bytesRead' = SizeAfter(r)
           /\ curRecord' = r.data
           /\ IF r.err = Nil
              THEN /\ pcProd' = "send"
                   /\ UNCHANGED numProcessed
              ELSE IF ~IsEndOfInput(r.err)
              THEN /\ numProcessed' = numProcessed + 1
                   /\ pcProd' = "sendErr"
              ELSE /\ pcProd' = "close"
                   /\ UNCHANGED numProcessed
    /\ UNCHANGED << config, fields, recordChan, chanClosed, pcMain, engineSt,
                    retErr, headerErr, output, errRecv, hist >>

\* Producer: errChan <- fmt.Errorf("read error on entry #%v: %v", ...)
ProducerSendErr ==
    /\ pcProd = "sendErr"
    /\ ErrChanReady
    /\ errRecv' = Append(errRecv, ReadError(ReadErrorEntry))
    /\ hist' = [hist EXCEPT !.readErrs = Append(@, ReadError(ReadErrorEntry))]
    /\ pcProd' = "close"
    /\ UNCHANGED << config, fields, numProcessed, readerSt, curRecord,
                    recordChan, chanClosed, pcMain, engineSt, retErr,
                    headerErr, output >>

\* Mutant: the producer returns without closing the record channel.
CloseRecordChanOmitted == chanClosed

\* close(recordChan): the channel is closed from here on.
CloseRecordChan == TRUE

\* Producer: close(recordChan); return
ProducerClose ==
    /\ pcProd = "close"
    /\ chanClosed' = CloseRecordChan
    /\ hist' = [hist EXCEPT !.closes = @ + 1]
    /\ pcProd' = "done"
    /\ UNCHANGED << config, fields, numProcessed, readerSt, curRecord,
                    recordChan, pcMain, engineSt, retErr, headerErr, output,
                    errRecv >>

\* Producer: recordChan <- ConvertibleDoc{fields, data, index}
ProducerSend ==
    /\ pcProd = "send"
    /\ Len(recordChan) < RecordChanCap
    /\ recordChan' = Append(recordChan,
                            [kind |-> kind, fields |-> fields,
                             data |-> RecordData, index |-> RecordIndex])
    /\ hist' = [hist EXCEPT !.enq = Append(@, RecordIndex)]
    /\ pcProd' = "incr"
    /\ UNCHANGED << config, fields, numProcessed, readerSt, curRecord,
                    chanClosed, pcMain, engineSt, retErr, headerErr, output,
                    errRecv >>

\* Mutant: the loop goes back to the top without counting the record.
ProducerIncrOmitted ==
    /\ pcProd = "incr"
    /\ pcProd' = "read"
    /\ UNCHANGED << config, fields, numProcessed, readerSt, curRecord,
                    recordChan, chanClosed, pcMain, engineSt, retErr,
                    headerErr, output, errRecv, hist >>

\* Producer: numProcessed++ after the send, then back to the top.
ProducerIncr ==
    /\ pcProd = "incr"
    /\ numProcessed' = numProcessed + 1
    /\ pcProd' = "read"
    /\ UNCHANGED << config, fields, readerSt, curRecord, recordChan,
                    chanClosed, pcMain, engineSt, retErr, headerErr, output,
                    errRecv, hist >>


\* --------------------------------------------------------- streamDocuments
\* The decode engine: numDecoders workers over the record channel, a
\* first-write-wins terminal error, and in ordered mode a reassembly buffer
\* released in index order.

\* The workers run the same code over the same channels, so the waiting
\* workers are interchangeable: the next one to move is the first of them.
FirstReady(w) ==
    /\ workers[w].pc = "ready"
    /\ \A v \in Workers : v < w => workers[v].pc # "ready"

\* A worker looks at the terminal error before each unit of work, then takes
\* the head of the record channel.
WorkerDequeue(w) ==
    /\ pcMain = "streaming"
    /\ FirstReady(w)
    /\ terminalError = Nil
    /\ recordChan # <<>>
    /\ workers' = [workers EXCEPT ![w] = [pc |-> "busy", rec |-> Head(recordChan)]]
    /\ recordChan' = Tail(recordChan)
    /\ hist' = [hist EXCEPT !.deq = Append(@, Head(recordChan).index)]
    /\ UNCHANGED << config, fields, numProcessed, readerSt, curRecord,
                    chanClosed, pcMain, pcProd, terminalError, buffer,
                    nextExpectedIndex, outputClosed, retErr, headerErr,
                    output, errRecv >>

\* A worker leaves when an error is latched or the record channel is closed
\* and drained.
WorkerExit(w) ==
    /\ pcMain = "streaming"
    /\ FirstReady(w)
    /\ terminalError # Nil \/ (recordChan = <<>> /\ chanClosed)
    /\ workers' = [workers EXCEPT ![w] = [pc |-> "done", rec |-> NoRecord]]
    /\ UNCHANGED << config, fields, numProcessed, readerSt, curRecord,
                    recordChan, chanClosed, pcMain, pcProd, terminalError,
                    buffer, nextExpectedIndex, outputClosed, retErr,
                    headerErr, output, errRecv, hist >>

\* First write wins.
Latch(cur, err) == IF cur = Nil THEN err ELSE cur

\* A worker converts the record it holds.  A failure is latched and ends the
\* worker; a document goes to the output (unordered) or to the reassembly
\* buffer (ordered), tagged with the record's index.
WorkerConvert(w) ==
    /\ pcMain = "streaming"
    /\ workers[w].pc = "busy"
    /\ LET d == workers[w].rec
           c == Convert(d)
           res == [doc |-> c.doc, index |-> d.index]
       IN  IF c.err # Nil
           THEN /\ terminalError' = Latch(terminalError, c.err)
                /\ workers' = [workers EXCEPT ![w] = [pc |-> "done", rec |-> NoRecord]]
                /\ UNCHANGED << buffer, output, hist >>
           ELSE /\ workers' = [workers EXCEPT ![w] = [pc |-> "ready", rec |-> NoRecord]]
                /\ UNCHANGED terminalError
                /\ IF ordered
                   THEN /\ buffer' = buffer \cup { res }
                        /\ hist' = [hist EXCEPT !.heldBack =
                                      @ \/ d.index > nextExpectedIndex]
                        /\ UNCHANGED output
                   ELSE /\ OutputReady(1)
                        /\ output' = Append(output, res)
                        /\ UNCHANGED << buffer, hist >>
    /\ UNCHANGED << config, fields, numProcessed, readerSt, curRecord,
                    recordChan, chanClosed, pcMain, pcProd, nextExpectedIndex,
                    outputClosed, retErr, headerErr, errRecv >>

Buffered(i) == \E r \in buffer : r.index = i

BufferedAt(i) == CHOOSE r \in buffer : r.index = i

RECURSIVE RunEnd(_)
\* One past the last index of the contiguous run of buffered results that
\* starts at n.
RunEnd(n) == IF Buffered(n) THEN RunEnd(n + 1) ELSE n

\* Ordered mode: the result for nextExpectedIndex is in; release the maximal
\* contiguous run and move the cursor past it.
Release ==
    /\ pcMain = "streaming"
    /\ ordered
    /\ Buffered(nextExpectedIndex)
    /\ LET end == RunEnd(nextExpectedIndex)
           n == end - nextExpectedIndex
       IN  /\ OutputReady(n)
           /\ output' = output \o [k \in 1..n |-> BufferedAt(nextExpectedIndex + k - 1)]
           /\ buffer' = { r \in buffer : r.index >= end }
           /\ nextExpectedIndex' = end
    /\ UNCHANGED << config, fields, numProcessed, readerSt, curRecord,
                    recordChan, chanClosed, pcMain, pcProd, workers,
                    terminalError, outputClosed, retErr, headerErr, errRecv,
                    hist >>

\* streamDocuments returns: every worker has left and nothing is left to
\* release; the output is closed and the terminal error is the result.
EngineReturn ==
    /\ pcMain = "streaming"
    /\ \A w \in Workers : workers[w].pc = "done"
    /\ ~(ordered /\ Buffered(nextExpectedIndex))
    /\ outputClosed' = TRUE
    /\ retErr' = terminalError
    /\ pcMain' = "sendErr"
    /\ UNCHANGED << config, fields, numProcessed, readerSt, curRecord,
                    recordChan, chanClosed, pcProd, workers, terminalError,
                    buffer, nextExpectedIndex, headerErr, output, errRecv,
                    hist >>

\* StreamDocument: errChan <- streamDocuments(...)
StreamDocumentSendResult ==
    /\ pcMain = "sendErr"
    /\ ErrChanReady
    /\ errRecv' = Append(errRecv, retErr)
    /\ pcMain' = "done"
    /\ UNCHANGED << config, fields, numProcessed, readerSt, curRecord,
                    recordChan, chanClosed, pcProd, engineSt, retErr,
                    headerErr, output, hist >>

\* ------------------------------------------------------------ specification
Producer ==
    \/ ProducerRead
    \/ ProducerSendErr
    \/ ProducerClose
    \/ ProducerSend
    \/ ProducerIncr

Engine ==
    \/ \E w \in Workers : WorkerDequeue(w)
    \/ \E w \in Workers : WorkerExit(w)
    \/ \E w \in Workers : WorkerConvert(w)
    \/ Release
    \/ EngineReturn

Next ==
    \/ ReadAndValidateHeader
    \/ StreamDocument
    \/ Producer
    \/ Engine
    \/ StreamDocumentSendResult

Spec == Init /\ [][Next]_vars

\* Every goroutine that can run is eventually run; no step of the model
\* returns to an earlier state, so fairness of Next is fairness of each.
FairSpec == Init /\ [][Next]_vars /\ WF_vars(Next)

\* The consumer takes one value from errChan and leaves.
SpecErrOnce == InitErrOnce /\ [][Next]_vars

\* The consumer abandons the output channel.
SpecAbandon == InitAbandon /\ [][Next]_vars

\* ----------------------------------------------------------------- typing
TypeOK ==
    /\ kind \in { "csv", "tsv" }
    /\ ordered \in BOOLEAN
    /\ numDecoders \in 1..MaxDecoders
    /\ pcMain \in { "new", "headerFailed", "ready", "streaming", "sendErr", "done" }
    /\ pcProd \in { "idle", "read", "send", "incr", "sendErr", "close", "done" }
    /\ \A w \in Workers : workers[w].pc \in { "idle", "ready", "busy", "done" }
    /\ unitPos \in 0..NumUnits
    /\ srcPos \in 0..TotalBytes
    /\ numProcessed \in 0..(MaxRecords + 1)


\* ================================================================== claims
\* Helpers of the claims' formulas.
Indices(q) == [i \in 1..Len(q) |-> q[i].index]

UpTo(n) == [i \in 1..n |-> i - 1]

Enqueued == Len(hist.enq)

\* streamDocuments has returned.
EngineReturned == pcMain \in { "sendErr", "done" }

\* What record number i (from 0) of the input converts to, under the
\* reader's fields.
Expected(i) ==
    [doc |-> tokensToBSON(fields, input.units[i + 2], i).doc, index |-> i]

\* The data lines of the input.
NumRecords == NumUnits - 1

\* Every data line of the input converts under the reader's fields.
AllWellFormed ==
    \A i \in 0..(NumRecords - 1) :
        tokensToBSON(fields, input.units[i + 2], i).err = Nil

\* C1 (as claimed): for an input of N records that all convert, ordered mode
\* delivers exactly the records with sequence index 0, 1, ..., N-1, in that
\* order and each once, for both readers: at every moment the output is the
\* conversions of records 0..k-1 in order, and once streamDocuments has
\* returned k is N, the number of data lines of the input.
C1_OrderedOutput ==
    ordered =>
        /\ Indices(output) = UpTo(Len(output))
        /\ \A i \in 1..Len(output) : output[i] = Expected(i - 1)
        /\ (EngineReturned /\ input.ending # "error" /\ AllWellFormed) =>
               Indices(output) = UpTo(NumRecords)

\* C2 (as claimed): exactly one value is delivered on the error channel in
\* every run, nil exactly when neither a read error nor a conversion error
\* occurred, and an error is never followed by a second terminal value.
C2_SingleTerminalValue ==
    /\ Len(errRecv) <= 1
    /\ pcMain = "done" =>
           /\ Len(errRecv) = 1
           /\ errRecv[1] = Nil <=> (hist.readErrs = <<>> /\ terminalError = Nil)

\* C3 (as claimed): once a conversion error is latched the producer reads no
\* further framing unit and enqueues no further record.
C3_NoAdmissionAfterLatch ==
    [][terminalError # Nil => (unitPos' = unitPos /\ hist'.enq = hist.enq)]_vars

\* C4: a read error after k enqueued records is emitted once, carries entry
\* number k+1 (the ordinal of the failing unit among the data lines), no
\* record is enqueued for the failing unit or after it, and the producer goes
\* on to close the record channel and stop.
C4_ReadErrorOrdinal ==
    /\ Len(hist.readErrs) <= 1
    /\ pcProd = "sendErr" => hist.readErrs = <<>> /\ ~chanClosed
    /\ \A i \in 1..Len(hist.readErrs) :
           /\ hist.readErrs[i] = ReadError(Enqueued + 1)
           /\ Enqueued = NumRecords
           /\ input.ending = "error"
           /\ pcProd \in { "close", "done" }
    /\ (input.ending = "error" /\ pcProd = "done") =>
           /\ Len(hist.readErrs) = 1
           /\ chanClosed

\* C4 witness: two records were enqueued, the third read failed, the error
\* was sent as entry #3 and the producer closed the channel and stopped.
C4_Witness ==
    /\ hist.readErrs = << ReadError(3) >>
    /\ Enqueued = 2
    /\ pcProd = "done" /\ chanClosed

\* C5: at end-of-input the producer sends nothing on the error channel and
\* closes the record channel exactly once; when no conversion failed either,
\* the one terminal value StreamDocument delivers is nil.
C5_EndOfInputIsNotAnError ==
    /\ hist.closes <= 1
    /\ pcProd = "done" => hist.closes = 1 /\ chanClosed
    /\ input.ending # "error" =>
           /\ hist.readErrs = <<>>
           /\ pcProd # "sendErr"
           /\ (pcMain = "done" /\ terminalError = Nil) => errRecv = << Nil >>

\* C5 witness: the source ended, the producer closed the channel and left,
\* documents were delivered and nil was the only terminal value.
C5_Witness ==
    /\ input.ending = "eof" /\ pcProd = "done" /\ hist.closes = 1
    /\ pcMain = "done" /\ errRecv = << Nil >> /\ Len(output) = 2


\* C6 (as claimed): a header followed by N well-formed records yields
\* exactly N documents before the nil terminal value, for both readers, in
\* either mode, for any worker count.
C6_Completeness ==
    (pcMain = "done" /\ input.ending # "error" /\ AllWellFormed
        /\ errRecv = << Nil >>)
    => Len(output) = NumRecords

\* C7 (as claimed): for both readers every byte pulled from the source is
\* counted by the size tracker, and once the stream has drained to
\* end-of-input Size() is the byte length of the input.
C7_ByteAccounting ==
    /\ bytesRead = srcPos
    /\ (pcProd = "done" /\ input.ending # "error") => bytesRead = TotalBytes

\* The documents of a sequence of results, as a bag.
RECURSIVE DocBag(_)
DocBag(q) ==
    IF q = <<>> THEN EmptyBag ELSE SetToBag({ Head(q).doc }) (+) DocBag(Tail(q))

\* C8 (as claimed): for an input whose records all convert, unordered mode
\* never delivers an index twice, delivers only conversions of input
\* records, and once streamDocuments has returned the bag of delivered
\* documents is the bag of the conversions of all input records, whatever
\* the interleaving was.
C8_UnorderedBag ==
    ~ordered =>
        /\ \A i, j \in 1..Len(output) : i # j => output[i].index # output[j].index
        /\ \A i \in 1..Len(output) :
               /\ output[i].index \in 0..(NumRecords - 1)
               /\ output[i] = Expected(output[i].index)
        /\ (EngineReturned /\ input.ending # "error" /\ AllWellFormed) =>
               DocBag(output) = DocBag([i \in 1..NumRecords |-> Expected(i - 1)])

\* C9: the record channel never holds more than numDecoders records, and
\* while it holds numDecoders no record is enqueued.
C9_Backpressure ==
    /\ [](Len(recordChan) <= numDecoders)
    /\ [][Len(recordChan) = numDecoders => hist'.enq = hist.enq]_vars

\* C9 witness: the channel is full and the producer holds the next record,
\* blocked at the send.
C9_Witness ==
    /\ numDecoders = 2 /\ Len(recordChan) = 2
    /\ pcProd = "send" /\ unitPos = 4

\* C10 (as claimed): the i-th record enqueued carries index i, so the
\* indices put on the channel are 0, 1, 2, ... without gap or repeat; the
\* records dequeued, in order, followed by those still in the channel are
\* exactly the records enqueued, so no record is taken by two workers; and
\* every enqueued record is dequeued: once streamDocuments has returned and
\* its workers are gone, no enqueued record is left that no worker took.
C10_SequenceIndices ==
    /\ hist.enq = UpTo(Enqueued)
    /\ hist.enq = hist.deq \o Indices(recordChan)
    /\ \A i \in 1..Len(recordChan) :
           recordChan[i].data = (IF kind = "csv"
                                 THEN input.units[recordChan[i].index + 2]
                                 ELSE TSVLine(input.units[recordChan[i].index + 2], TRUE))
    /\ \A w1, w2 \in Workers :
           (w1 # w2 /\ workers[w1].pc = "busy" /\ workers[w2].pc = "busy")
           => workers[w1].rec.index # workers[w2].rec.index
    /\ EngineReturned => hist.deq = hist.enq


\* The header unit cannot be read: the input is empty, or a TSV header line
\* ends the input without its terminator.
HeaderUnreadable == NumUnits = 0 \/ (kind = "tsv" /\ Unterminated(1))

\* C11: a header failure is the return value of ReadAndValidateHeader and
\* nothing else: nothing went to the error channel, no producer was started,
\* no record was enqueued and no framing unit after the header was read;
\* the call fails whenever the header unit cannot be read or the fields it
\* leaves do not validate, and only then.
C11_HeaderFailureSynchronous ==
    /\ pcMain = "headerFailed" =>
           /\ headerErr # Nil
           /\ errRecv = <<>> /\ hist.readErrs = <<>>
           /\ pcProd = "idle"
           /\ recordChan = <<>> /\ hist.enq = <<>>
           /\ unitPos <= 1
           /\ numProcessed = 0
    /\ (pcMain # "new" /\ HeaderUnreadable) => pcMain = "headerFailed"
    /\ pcMain \notin { "new", "headerFailed" } =>
           /\ headerErr = Nil
           /\ validateReaderFields(fields) = Nil

\* C11 witness: the header has a duplicate name, records follow it, and the
\* call has returned the validation error with only the header read.
C11_Witness ==
    /\ pcMain = "headerFailed" /\ headerErr = HeaderInvalid
    /\ NumUnits = 3 /\ unitPos = 1

\* C12 (as claimed): a TSV producer enqueues one record for every data line,
\* a final line without terminator included, and a header that is the only
\* line and lacks its terminator is still read as the header.
C12_TSVOneRecordPerLine ==
    kind = "tsv" =>
        /\ (pcProd = "done" /\ input.ending # "error") => Enqueued = NumRecords
        /\ (pcMain # "new" /\ NumUnits = 1 /\ input.ending = "eofNoNewline")
               => headerErr # EOFErr

\* C13 (as claimed): after a successful ReadAndValidateHeader the reader's
\* fields are exactly the names of the header unit, whatever they were
\* before, and every record enqueued carries that list.
C13_HeaderSetsFields ==
    pcMain \notin { "new", "headerFailed" } =>
        /\ fields = input.units[1]
        /\ \A i \in 1..Len(recordChan) : recordChan[i].fields = input.units[1]

\* C14: in ordered mode the cursor starts at 0 and never decreases; the
\* output grows only by the run that starts at the cursor; after a release
\* nothing buffered has the cursor's index; every buffered result is at or
\* beyond the cursor (beyond it after a release) and every released result
\* is below it.
C14_ReassemblyCursor ==
    /\ [](ordered =>
            /\ pcMain = "new" => nextExpectedIndex = 0
            /\ nextExpectedIndex = Len(output)
            /\ \A r \in buffer : r.index >= nextExpectedIndex
            /\ \A i \in 1..Len(output) : output[i].index < nextExpectedIndex)
    /\ [][ordered =>
            /\ nextExpectedIndex' >= nextExpectedIndex
            /\ output' # output =>
                   /\ Buffered(nextExpectedIndex)
                   /\ Len(output') > Len(output)
                   /\ SubSeq(output', 1, Len(output)) = output
                   /\ \A k \in (Len(output) + 1)..Len(output') :
                          output'[k].index = nextExpectedIndex + (k - Len(output) - 1)
                   /\ nextExpectedIndex' = nextExpectedIndex + Len(output') - Len(output)
                   /\ \A r \in buffer' : r.index > nextExpectedIndex'
          ]_vars

\* C14 witness: result 0 was released, result 2 waits in the buffer for
\* result 1, which a worker still holds.
C14_Witness ==
    /\ ordered /\ nextExpectedIndex = 1 /\ Len(output) = 1
    /\ Buffered(2) /\ ~Buffered(1)
    /\ \E w \in Workers : workers[w].pc = "busy" /\ workers[w].rec.index = 1


\* No conversion can fail: every data line converts under the reader's
\* fields, but for a final TSV line without terminator, which ReadString
\* returns together with io.EOF and the producer never hands to a worker.
AllFramedConvert ==
    \A i \in 0..(NumRecords - 1) :
        \/ kind = "tsv" /\ Unterminated(i + 2)
        \/ tokensToBSON(fields, input.units[i + 2], i).err = Nil

\* The producer has closed the record channel and left, every worker has
\* left, and StreamDocument has delivered its value.
AllStopped ==
    /\ pcProd = "done" /\ chanClosed
    /\ \A w \in Workers : workers[w].pc = "done"
    /\ pcMain = "done"

\* C15: with no read error and no conversion error, under fair scheduling
\* and a consumer that keeps receiving, a started stream always reaches the
\* state where producer, workers and StreamDocument have all finished and
\* nil was delivered.
C15_TerminationOnSuccess ==
    [](((pcMain = "streaming" /\ input.ending # "error" /\ AllFramedConvert))
         => <>(AllStopped /\ errRecv = << Nil >>))

\* C15 witness: three records, two workers, everything finished and nil was
\* delivered.
C15_Witness ==
    /\ AllStopped /\ errRecv = << Nil >>
    /\ numDecoders = 2 /\ Len(output) = 3 /\ input.ending = "eof"

ErrorOccurred == hist.readErrs # <<>> \/ terminalError # Nil

\* C16 (as claimed): when an error occurred and the consumer has received
\* the one terminal error, the producer goroutine and StreamDocument both
\* terminate: no state in which nothing can run any more leaves either of
\* them short of its end.
C16_CleanUnwind ==
    (ErrorOccurred /\ Len(errRecv) = 1 /\ errRecv[1] # Nil /\ ~ENABLED Next)
    => (pcProd = "done" /\ pcMain = "done")

\* The consumer has stopped receiving documents; every worker holds a
\* converted document it cannot send, the record channel is full and the
\* producer holds the next record at its send.
Jammed ==
    /\ pcMain = "streaming" /\ ~ordered
    /\ Len(output) = consumer.docs
    /\ \A w \in Workers :
           workers[w].pc = "busy" /\ Convert(workers[w].rec).err = Nil
    /\ Len(recordChan) = numDecoders
    /\ pcProd = "send"

\* C17: once the consumer has abandoned the output with the workers busy,
\* the channel full and the producer at its send, no step is enabled: the
\* pipeline stays there, StreamDocument never returns.  (That such a state
\* is reached is C17_Witness.)
C17_AbandonedJam ==
    Jammed => (~ENABLED Next /\ pcMain # "done" /\ pcProd # "done")

\* C17 witness: the consumer took no document; with one worker and three
\* records the worker holds record 0, the channel holds record 1 and the
\* producer holds record 2.
C17_Witness ==
    /\ Jammed /\ consumer.docs = 0 /\ numDecoders = 1
    /\ unitPos = 4 /\ Indices(recordChan) = <<1>>

\* C18: a read error is sent before the record channel is closed, so when a
\* read error occurs and no conversion error does, the first value received
\* on the error channel is the read error, never the engine's nil.
C18_ReadErrorFirst ==
    /\ (chanClosed /\ input.ending = "error") => Len(hist.readErrs) = 1
    /\ (input.ending = "error" /\ pcMain \notin { "new", "headerFailed" }
          /\ errRecv # <<>> /\ terminalError = Nil)
       => errRecv[1] = ReadError(NumUnits)

\* C18 witness: two documents were delivered, then the read error, then the
\* engine's nil.
C18_Witness ==
    /\ errRecv = << ReadError(3), Nil >> /\ Len(output) = 2

\* C19: numProcessed changes only in a step of the producer, only by +1;
\* it is the number of records enqueued, one less between a send and its
\* increment, one more after a read error; at producer exit it is the
\* number enqueued after end-of-input and that number plus one after a
\* read error.
C19_RecordCounter ==
    /\ [](/\ numProcessed - Enqueued \in { -1, 0, 1 }
          /\ pcProd = "done" =>
                 numProcessed = Enqueued + (IF hist.readErrs # <<>> THEN 1 ELSE 0)
          /\ pcProd = "done" => (hist.readErrs # <<>> <=> input.ending = "error"))
    /\ [][numProcessed' # numProcessed =>
            /\ numProcessed' = numProcessed + 1
            /\ pcProd \in { "read", "incr" } /\ pcProd' # pcProd
            /\ UNCHANGED << pcMain, workers >>]_vars

\* C19 witness: two records were enqueued, the third read failed and the
\* producer left with numProcessed = 3.
C19_Witness ==
    /\ pcProd = "done" /\ Enqueued = 2 /\ numProcessed = 3
    /\ hist.readErrs # <<>>

====
